---- MODULE Spec2Model ----
(***************************************************************************)
(* A model of the websocket client of binance-rs (src/src/websockets.rs):  *)
(* the WebSockets object (socket + handler), connect, disconnect and the   *)
(* event_loop that reads one frame at a time, classifies text frames and   *)
(* hands the decoded event to the handler.                                 *)
(*                                                                         *)
(* Text is a sequence of tokens.  The punctuation of JSON is one token     *)
(* each ("{", "}", "[", "]", ":", ","), "Q" is a double quote, "EQ" is an  *)
(* escaped double quote (backslash + quote) inside a string literal, "1"   *)
(* is a number literal and "null" the null literal.  Every other token is  *)
(* a run of letters.  The words the code searches for ("markPrice" and the *)
(* nine markers) are tokens of their own and no run of other tokens spells *)
(* one of them, so str::find / str::contains is token membership.          *)
(***************************************************************************)
EXTENDS Integers, Sequences, FiniteSets, TLC

VARIABLES
  socket,     \* WebSockets::socket: "None" or "Some" (a connected socket)
  closeSent,  \* a close frame has been queued on the socket by disconnect
  running,    \* the AtomicBool handed to event_loop, stored by another thread
  pc,         \* where event_loop stands: "idle" (never called), "poll" (at the
              \* while condition), "read" (inside read_message), "dispatch"
              \* (in the match on the frame read), "returned"
  spins,      \* iterations of this run that found no socket (saturating)
  message,    \* the frame read_message returned last
  frames,     \* the frames read by this run of event_loop, in order
  calls,      \* the invocations of the handler made by this run, in order
  result,     \* what event_loop returned
  apiResult   \* the last connect or disconnect and what it returned

vars == <<socket, closeSent, running, pc, spins, message, frames, calls, result, apiResult>>

\* ------------------------------------------------------------------ bounds
\* number of frames one run of event_loop reads in the model
MaxFrames == 2
\* number of marker words put into one generated payload
MaxMarkers == 2
\* iterations without a socket that are counted (the count saturates)
MaxSpins == 2

\* ------------------------------------------------------- text and JSON
Has(t, w) == \E i \in 1..Len(t) : t[i] = w

\* serde_json::Value, one record shape for every kind of value:
\* t the kind, s the content of a string, k the keys and v the members of an
\* object (in text order), v the elements of an array.
Null == [t |-> "null", s |-> <<>>, k |-> <<>>, v |-> <<>>]
JStr(c) == [t |-> "str", s |-> c, k |-> <<>>, v |-> <<>>]
JNum == [t |-> "num", s |-> <<>>, k |-> <<>>, v |-> <<>>]
JObj(ks, vs) == [t |-> "obj", s |-> <<>>, k |-> ks, v |-> vs]
JArr(vs) == [t |-> "arr", s |-> <<>>, k |-> <<>>, v |-> vs]

ParseFail == [ok |-> FALSE, val |-> Null, next |-> 0]
ParseOk(val, next) == [ok |-> TRUE, val |-> val, next |-> next]

\* a string literal's content with its escapes resolved
Unescape(c) == [i \in 1..Len(c) |-> IF c[i] = "EQ" THEN "Q" ELSE c[i]]

\* position of the quote that closes the literal opened before position i
RECURSIVE ClosingQuote(_, _)
ClosingQuote(t, i) ==
  IF i > Len(t) THEN 0
  ELSE IF t[i] = "Q" THEN i
  ELSE ClosingQuote(t, i + 1)

ParseString(t, i) ==
  IF i > Len(t) \/ t[i] # "Q" THEN ParseFail
  ELSE LET j == ClosingQuote(t, i + 1)
       IN IF j = 0 THEN ParseFail
          ELSE ParseOk(JStr(Unescape(SubSeq(t, i + 1, j - 1))), j + 1)

RECURSIVE ParseValue(_, _)
RECURSIVE ParseMembers(_, _, _, _)
RECURSIVE ParseElems(_, _, _)

ParseValue(t, i) ==
  IF i > Len(t) THEN ParseFail
  ELSE IF t[i] = "Q" THEN ParseString(t, i)
  ELSE IF t[i] = "1" THEN ParseOk(JNum, i + 1)
  ELSE IF t[i] = "null" THEN ParseOk(Null, i + 1)
  ELSE IF t[i] = "{" THEN
         IF i + 1 <= Len(t) /\ t[i + 1] = "}" THEN ParseOk(JObj(<<>>, <<>>), i + 2)
         ELSE ParseMembers(t, i + 1, <<>>, <<>>)
  ELSE IF t[i] = "[" THEN
         IF i + 1 <= Len(t) /\ t[i + 1] = "]" THEN ParseOk(JArr(<<>>), i + 2)
         ELSE ParseElems(t, i + 1, <<>>)
  ELSE ParseFail

ParseMembers(t, i, ks, vs) ==
  LET key == ParseString(t, i)
  IN IF ~key.ok \/ key.next > Len(t) \/ t[key.next] # ":" THEN ParseFail
     ELSE LET m == ParseValue(t, key.next + 1)
          IN IF ~m.ok \/ m.next > Len(t) THEN ParseFail
             ELSE IF t[m.next] = ","
                    THEN ParseMembers(t, m.next + 1, Append(ks, key.val.s), Append(vs, m.val))
             ELSE IF t[m.next] = "}"
                    THEN ParseOk(JObj(Append(ks, key.val.s), Append(vs, m.val)), m.next + 1)
             ELSE ParseFail

ParseElems(t, i, vs) ==
  LET m == ParseValue(t, i)
  IN IF ~m.ok \/ m.next > Len(t) THEN ParseFail
     ELSE IF t[m.next] = "," THEN ParseElems(t, m.next + 1, Append(vs, m.val))
     ELSE IF t[m.next] = "]" THEN ParseOk(JArr(Append(vs, m.val)), m.next + 1)
     ELSE ParseFail

\* serde_json::from_str::<Value>: the whole text is one JSON value
FromStr(t) ==
  LET r == ParseValue(t, 1)
  IN IF r.ok /\ r.next = Len(t) + 1 THEN [ok |-> TRUE, val |-> r.val]
     ELSE [ok |-> FALSE, val |-> Null]

\* Value's Index<&str>: the member of an object (the last one of that name),
\* Null for a missing key and for every value that is not an object
Index(val, key) ==
  LET at == {i \in 1..Len(val.k) : val.k[i] = <<key>>}
  IN IF val.t # "obj" \/ at = {} THEN Null
     ELSE val.v[CHOOSE i \in at : \A j \in at : j <= i]

\* ------------------------------------------------------- marker constants
OUTBOUND_ACCOUNT_INFO == "outboundAccountInfo"
EXECUTION_REPORT == "executionReport"
KLINE == "kline"
AGGREGATED_TRADE == "aggTrade"
DEPTH_ORDERBOOK == "depthUpdate"
PARTIAL_ORDERBOOK == "lastUpdateId"
DAYTICKER == "24hrTicker"
ACCOUNT_UPDATE == "ACCOUNT_UPDATE"
ORDER_TRADE_UPDATE == "ORDER_TRADE_UPDATE"
MARK_PRICE == "markPrice"

\* the variants of WebsocketEvent the event loop constructs
Variants ==
  {"FuturesFunding", "BookTicker", "AccountUpdate", "OrderTrade", "Trade",
   "DayTicker", "Kline", "OrderBook", "DepthOrderBook",
   "FuturesAccountUpdateEvent", "OrderTradeUpdateEvent"}

\* ------------------------------------------------------- classification
NoEvent == [res |-> "none", variant |-> "", payload |-> Null]
DecodeErr(variant) == [res |-> "err", variant |-> variant, payload |-> Null]
Event(variant, val) == [res |-> "event", variant |-> variant, payload |-> val]

\* The shape serde accepts for the record of a variant: DayTicker is a
\* Vec<DayTickerEvent>, a sequence of records; every other variant is one
\* record.  The fields of the records are not modelled.
ShapeFits(variant, val) ==
  IF variant = "DayTicker"
    THEN val.t = "arr" /\ \A i \in 1..Len(val.v) : val.v[i].t = "obj"
    ELSE val.t = "obj"

\* from_str::<T>(data_msg)? followed by the construction of the variant
Decode(variant, data_msg) ==
  LET r == FromStr(data_msg)
  IN IF r.ok /\ ShapeFits(variant, r.val) THEN Event(variant, r.val)
     ELSE DecodeErr(variant)

\* value["u"] != Null && ... && value["A"] != Null
HasSixKeys(value) ==
  /\ Index(value, "u") # Null
  /\ Index(value, "s") # Null
  /\ Index(value, "b") # Null
  /\ Index(value, "B") # Null
  /\ Index(value, "a") # Null
  /\ Index(value, "A") # Null

\* the chain with the aggTrade and the kline arms exchanged
MarkerChainSwapped ==
  << [marker |-> OUTBOUND_ACCOUNT_INFO, variant |-> "AccountUpdate"],
     [marker |-> EXECUTION_REPORT, variant |-> "OrderTrade"],
     [marker |-> KLINE, variant |-> "Kline"],
     [marker |-> DAYTICKER, variant |-> "DayTicker"],
     [marker |-> AGGREGATED_TRADE, variant |-> "Trade"],
     [marker |-> PARTIAL_ORDERBOOK, variant |-> "OrderBook"],
     [marker |-> DEPTH_ORDERBOOK, variant |-> "DepthOrderBook"],
     [marker |-> ACCOUNT_UPDATE, variant |-> "FuturesAccountUpdateEvent"],
     [marker |-> ORDER_TRADE_UPDATE, variant |-> "OrderTradeUpdateEvent"] >>

\* the else-if chain over msg.find(..), in the order of the code
MarkerChain ==
  << [marker |-> OUTBOUND_ACCOUNT_INFO, variant |-> "AccountUpdate"],
     [marker |-> EXECUTION_REPORT, variant |-> "OrderTrade"],
     [marker |-> AGGREGATED_TRADE, variant |-> "Trade"],
     [marker |-> DAYTICKER, variant |-> "DayTicker"],
     [marker |-> KLINE, variant |-> "Kline"],
     [marker |-> PARTIAL_ORDERBOOK, variant |-> "OrderBook"],
     [marker |-> DEPTH_ORDERBOOK, variant |-> "DepthOrderBook"],
     [marker |-> ACCOUNT_UPDATE, variant |-> "FuturesAccountUpdateEvent"],
     [marker |-> ORDER_TRADE_UPDATE, variant |-> "OrderTradeUpdateEvent"] >>

\* the branch of the chain that is taken for the raw text msg, 0 for none
ChainBranch(msg) ==
  LET hit == {i \in 1..Len(MarkerChain) : Has(msg, MarkerChain[i].marker)}
  IN IF hit = {} THEN 0 ELSE CHOOSE i \in hit : \A j \in hit : i <= j

\* the chain with a final else that fails
BySubstringStrict(msg, data_msg) ==
  LET b == ChainBranch(msg)
  IN IF b = 0 THEN DecodeErr("") ELSE Decode(MarkerChain[b].variant, data_msg)

BySubstring(msg, data_msg) ==
  LET b == ChainBranch(msg)
  IN IF b = 0 THEN NoEvent ELSE Decode(MarkerChain[b].variant, data_msg)

\* the arm taken when stream_val["stream"] is a string and the data slot,
\* value, is a string too (value.as_str() is Some(data_msg))
ClassifyData(msg, stream_name, value) ==
  IF Has(stream_name, MARK_PRICE) THEN Decode("FuturesFunding", value.s)
  ELSE IF HasSixKeys(value) THEN Decode("BookTicker", value.s)
  ELSE BySubstring(msg, value.s)

\* the slot of the parsed frame that is examined: stream_val["data"]
DataSlot(stream_val) == Index(stream_val, "data")

\* what value.as_str() lets through to the classification
TakesData(value) == value.t = "str"

\* the Message::Text arm without the call of the handler: the event handed
\* to the handler, no event, or the error that `?` returns
Classify(msg) ==
  LET parsed == FromStr(msg)
  IN IF ~parsed.ok THEN DecodeErr("")
     ELSE LET stream_val == parsed.val
              stream == Index(stream_val, "stream")
          IN IF stream.t # "str" THEN NoEvent
             ELSE LET value == DataSlot(stream_val)
                  IN IF TakesData(value)
                       THEN ClassifyData(msg, stream.s, value)
                       ELSE NoEvent

\* ------------------------------------------------------- frames read
\* tungstenite::Message: Text carries text, Close an optional reason
TextMsg(t) == [kind |-> "Text", text |-> t, reason |-> ""]
CtlMsg(kind) == [kind |-> kind, text |-> <<>>, reason |-> ""]
CloseMsg(reason) == [kind |-> "Close", text |-> <<>>, reason |-> reason]
NoMessage == CtlMsg("none")

\* building blocks of the texts a peer sends
Lit(c) == <<"Q">> \o c \o <<"Q">>
Escape(t) == [i \in 1..Len(t) |-> IF t[i] = "Q" THEN "EQ" ELSE t[i]]
Quoted(t) == Lit(Escape(t))
Member(key, valtxt) == Lit(<<key>>) \o <<":">> \o valtxt

RECURSIVE Join(_)
Join(parts) ==
  IF Len(parts) = 0 THEN <<>>
  ELSE IF Len(parts) = 1 THEN parts[1]
  ELSE parts[1] \o <<",">> \o Join(Tail(parts))

ObjText(members) == <<"{">> \o Join(members) \o <<"}">>
ArrText(elems) == <<"[">> \o Join(elems) \o <<"]">>
Envelope(streamtxt, datatxt) ==
  ObjText(<<Member("stream", streamtxt), Member("data", datatxt)>>)
StreamLit(w) == Lit(<<"btcusdt@", w>>)

\* {"e":m1,"x":m2,..}: an object that names the words ms in its values
FieldNames == <<"e", "x", "y", "z">>
WordObj(ms) == ObjText([i \in 1..Len(ms) |-> Member(FieldNames[i], Lit(<<ms[i]>>))])

\* an object with the six keys of a book ticker, followed by the words ms
SixKeyMembers ==
  << Member("u", <<"1">>), Member("s", Lit(<<"BTCUSDT">>)),
     Member("b", Lit(<<"p">>)), Member("B", Lit(<<"q">>)),
     Member("a", Lit(<<"p">>)), Member("A", Lit(<<"q">>)) >>
SixKeyObj(ms) ==
  ObjText(SixKeyMembers \o [i \in 1..Len(ms) |-> Member(FieldNames[i], Lit(<<ms[i]>>))])

\* {"e":"aggTrade","s":"BTCUSDT","p":"50000.00"}
TradeObj ==
  ObjText(<< Member("e", Lit(<<AGGREGATED_TRADE>>)), Member("s", Lit(<<"BTCUSDT">>)),
             Member("p", Lit(<<"50000.00">>)) >>)
\* [{"e":"24hrTicker","s":"BTCUSDT"},{"e":"24hrTicker","s":"BTCUSDT"}]
DayTickerObj ==
  ObjText(<< Member("e", Lit(<<DAYTICKER>>)), Member("s", Lit(<<"BTCUSDT">>)) >>)
DayTickerArr == ArrText(<<DayTickerObj, DayTickerObj>>)

\* the frames the peer sends to the event loop
LoopFrames ==
  { TextMsg(Envelope(StreamLit(AGGREGATED_TRADE), Quoted(TradeObj))),
    TextMsg(Envelope(StreamLit(MARK_PRICE), Quoted(WordObj(<<KLINE>>)))),
    TextMsg(Envelope(StreamLit(AGGREGATED_TRADE), TradeObj)),
    TextMsg(Envelope(StreamLit(MARK_PRICE), SixKeyObj(<<>>))),
    TextMsg(Envelope(StreamLit("bookTicker"), SixKeyObj(<<KLINE>>))),
    TextMsg(Envelope(StreamLit(AGGREGATED_TRADE), Lit(<<"p">>))),
    TextMsg(Envelope(StreamLit("ticker"), Quoted(WordObj(<<"p">>)))),
    TextMsg(DayTickerArr),
    TextMsg(<<"{">>),
    CtlMsg("Ping"), CtlMsg("Pong"), CtlMsg("Binary"),
    CloseMsg("None"), CloseMsg("Normal") }

\* ------------------------------------------------------- results
NoResult == [kind |-> "none", detail |-> ""]
Ok == [kind |-> "Ok", detail |-> ""]
Err(kind, detail) == [kind |-> kind, detail |-> detail]
\* the result r as the outcome of the call op ("connect" or "disconnect")
ApiRes(op, r) == [op |-> op, kind |-> r.kind, detail |-> r.detail]

\* ------------------------------------------------------- the object
\* WebSockets::new: no socket; the event loop has not been called
Init ==
  /\ socket = "None"
  /\ closeSent = FALSE
  /\ running \in BOOLEAN
  /\ pc = "idle"
  /\ spins = 0
  /\ message = NoMessage
  /\ frames = <<>>
  /\ calls = <<>>
  /\ result = NoResult
  /\ apiResult = ApiRes("none", NoResult)

\* no call is in progress on the object (every method takes &mut self)
Free == pc \in {"idle", "returned"}

\* the socket stored before the handshake is known to have succeeded
ConnectStoresEarly ==
  /\ Free
  /\ \E outcome \in {"ok", "url", "handshake"} :
       /\ socket' = IF outcome = "url" THEN socket ELSE "Some"
       /\ closeSent' = IF outcome = "url" THEN closeSent ELSE FALSE
       /\ apiResult' = ApiRes("connect",
                           IF outcome = "ok" THEN Ok
                           ELSE Err(IF outcome = "url" THEN "UrlParse" ELSE "Handshake", ""))
  /\ UNCHANGED <<running, pc, spins, message, frames, calls, result>>

Connect ==
  /\ Free
  /\ \E outcome \in {"ok", "url", "handshake"} :
       IF outcome = "ok"
         THEN /\ socket' = "Some"
              /\ closeSent' = FALSE
              /\ apiResult' = ApiRes("connect", Ok)
         ELSE /\ apiResult' = ApiRes("connect",
                                 Err(IF outcome = "url" THEN "UrlParse" ELSE "Handshake", ""))
              /\ UNCHANGED <<socket, closeSent>>
  /\ UNCHANGED <<running, pc, spins, message, frames, calls, result>>

\* a disconnect that takes the missing socket for an already closed one
DisconnectLenient ==
  /\ Free
  /\ IF socket = "Some"
       THEN \E sent \in BOOLEAN :
              /\ closeSent' = (closeSent \/ sent)
              /\ apiResult' = ApiRes("disconnect", IF sent THEN Ok ELSE Err("Transport", ""))
       ELSE /\ apiResult' = ApiRes("disconnect", Ok)
            /\ UNCHANGED closeSent
  /\ UNCHANGED <<socket, running, pc, spins, message, frames, calls, result>>

Disconnect ==
  /\ Free
  /\ IF socket = "Some"
       THEN \E sent \in BOOLEAN :
              /\ closeSent' = (closeSent \/ sent)
              /\ apiResult' = ApiRes("disconnect", IF sent THEN Ok ELSE Err("Transport", ""))
       ELSE /\ apiResult' = ApiRes("disconnect", Err("NotConnected", ""))
            /\ UNCHANGED closeSent
  /\ UNCHANGED <<socket, running, pc, spins, message, frames, calls, result>>

\* the other thread stores into the AtomicBool
SetRunning ==
  /\ \E b \in BOOLEAN : b # running /\ running' = b
  /\ UNCHANGED <<socket, closeSent, pc, spins, message, frames, calls, result, apiResult>>

CallEventLoop ==
  /\ Free
  /\ pc' = "poll"
  /\ spins' = 0
  /\ message' = NoMessage
  /\ frames' = <<>>
  /\ calls' = <<>>
  /\ result' = NoResult
  /\ UNCHANGED <<socket, closeSent, running, apiResult>>

Return(r) ==
  /\ pc' = "returned"
  /\ result' = r

\* the flag watched during the read as well
PollStopMidRead ==
  /\ pc \in {"poll", "read"}
  /\ ~running
  /\ Return(Ok)
  /\ UNCHANGED <<socket, closeSent, running, spins, message, frames, calls, apiResult>>

\* while running.load(Relaxed): the flag reads false, the loop ends, Ok(())
PollStop ==
  /\ pc = "poll"
  /\ ~running
  /\ Return(Ok)
  /\ UNCHANGED <<socket, closeSent, running, spins, message, frames, calls, apiResult>>

\* a loop that gives up when it finds no socket
PollSpinBails ==
  /\ pc = "poll"
  /\ running
  /\ socket = "None"
  /\ Return(Err("NotConnected", ""))
  /\ UNCHANGED <<socket, closeSent, running, spins, message, frames, calls, apiResult>>

\* the flag reads true and no socket is held: the body does nothing and the
\* flag is polled again
PollSpin ==
  /\ pc = "poll"
  /\ running
  /\ socket = "None"
  /\ spins' = IF spins < MaxSpins THEN spins + 1 ELSE spins
  /\ UNCHANGED <<socket, closeSent, running, pc, message, frames, calls, result, apiResult>>

\* read_message entered without regard to the flag
PollReadUnguarded ==
  /\ pc = "poll"
  /\ socket = "Some"
  /\ Len(frames) < MaxFrames
  /\ pc' = "read"
  /\ UNCHANGED <<socket, closeSent, running, spins, message, frames, calls, result, apiResult>>

\* the flag reads true and a socket is held: read_message is entered
PollRead ==
  /\ pc = "poll"
  /\ running
  /\ socket = "Some"
  /\ Len(frames) < MaxFrames
  /\ pc' = "read"
  /\ UNCHANGED <<socket, closeSent, running, spins, message, frames, calls, result, apiResult>>

\* a read that goes on to the next frame before the last one is dispatched
ReadFrameAhead ==
  /\ pc = "read"
  /\ \E m \in LoopFrames :
       /\ message' = m
       /\ frames' = Append(frames, m)
  /\ pc' = IF Len(frames) + 1 < MaxFrames THEN "read" ELSE "dispatch"
  /\ UNCHANGED <<socket, closeSent, running, spins, calls, result, apiResult>>

\* read_message returns a frame
ReadFrame ==
  /\ pc = "read"
  /\ \E m \in LoopFrames :
       /\ message' = m
       /\ frames' = Append(frames, m)
  /\ pc' = "dispatch"
  /\ UNCHANGED <<socket, closeSent, running, spins, calls, result, apiResult>>

\* read_message fails and `?` returns the error
ReadError ==
  /\ pc = "read"
  /\ Return(Err("Transport", ""))
  /\ UNCHANGED <<socket, closeSent, running, spins, message, frames, calls, apiResult>>

\* an invocation that overtakes the earlier ones
InvokeFirst(cs, ev, ok) ==
  << [frame |-> Len(frames), variant |-> ev.variant,
      payload |-> ev.payload, ok |-> ok] >> \o cs

\* (self.handler)(event): one invocation, for the frame read last
Invoke(cs, ev, ok) ==
  Append(cs, [frame |-> Len(frames), variant |-> ev.variant,
              payload |-> ev.payload, ok |-> ok])

\* a failing handler logged and passed over
DispatchTextForgiving ==
  /\ pc = "dispatch"
  /\ message.kind = "Text"
  /\ LET c == Classify(message.text)
     IN IF c.res = "err"
          THEN Return(Err("Decode", "")) /\ UNCHANGED calls
        ELSE IF c.res = "none"
          THEN pc' = "poll" /\ UNCHANGED <<calls, result>>
        ELSE \E ok \in BOOLEAN :
               /\ calls' = Invoke(calls, c, ok)
               /\ pc' = "poll" /\ UNCHANGED result
  /\ UNCHANGED <<socket, closeSent, running, spins, message, frames, apiResult>>

\* a frame that does not decode logged and passed over
DispatchTextSkipping ==
  /\ pc = "dispatch"
  /\ message.kind = "Text"
  /\ LET c == Classify(message.text)
     IN IF c.res \in {"err", "none"}
          THEN pc' = "poll" /\ UNCHANGED <<calls, result>>
        ELSE \E ok \in BOOLEAN :
               /\ calls' = Invoke(calls, c, ok)
               /\ IF ok THEN pc' = "poll" /\ UNCHANGED result
                        ELSE Return(Err("Callback", ""))
  /\ UNCHANGED <<socket, closeSent, running, spins, message, frames, apiResult>>

DispatchText ==
  /\ pc = "dispatch"
  /\ message.kind = "Text"
  /\ LET c == Classify(message.text)
     IN IF c.res = "err"
          THEN Return(Err("Decode", "")) /\ UNCHANGED calls
        ELSE IF c.res = "none"
          THEN pc' = "poll" /\ UNCHANGED <<calls, result>>
        ELSE \E ok \in BOOLEAN :
               /\ calls' = Invoke(calls, c, ok)
               /\ IF ok THEN pc' = "poll" /\ UNCHANGED result
                        ELSE Return(Err("Callback", ""))
  /\ UNCHANGED <<socket, closeSent, running, spins, message, frames, apiResult>>

\* a loop that accepts text frames only
DispatchControlStrict ==
  /\ pc = "dispatch"
  /\ message.kind \in {"Ping", "Pong", "Binary"}
  /\ IF message.kind = "Binary"
       THEN Return(Err("Decode", ""))
       ELSE pc' = "poll" /\ UNCHANGED result
  /\ UNCHANGED <<socket, closeSent, running, spins, message, frames, calls, apiResult>>

DispatchControl ==
  /\ pc = "dispatch"
  /\ message.kind \in {"Ping", "Pong", "Binary"}
  /\ pc' = "poll"
  /\ UNCHANGED <<socket, closeSent, running, spins, message, frames, calls, result, apiResult>>

\* bail!(format!("Disconnected {:?}", e))
CloseResult(m) == Err("PeerClosed", m.reason)

\* a Close frame taken for one more control frame
DispatchCloseIgnored ==
  /\ pc = "dispatch"
  /\ message.kind = "Close"
  /\ pc' = "poll"
  /\ UNCHANGED <<socket, closeSent, running, spins, message, frames, calls, result, apiResult>>

DispatchClose ==
  /\ pc = "dispatch"
  /\ message.kind = "Close"
  /\ Return(CloseResult(message))
  /\ UNCHANGED <<socket, closeSent, running, spins, message, frames, calls, apiResult>>

Next ==
  \/ Connect
  \/ Disconnect
  \/ SetRunning
  \/ CallEventLoop
  \/ PollStop
  \/ PollSpin
  \/ PollRead
  \/ ReadFrame
  \/ ReadError
  \/ DispatchText
  \/ DispatchControl
  \/ DispatchClose

Spec == Init /\ [][Next]_vars

TypeOK ==
  /\ socket \in {"None", "Some"}
  /\ closeSent \in BOOLEAN
  /\ running \in BOOLEAN
  /\ pc \in {"idle", "poll", "read", "dispatch", "returned"}
  /\ spins \in 0..MaxSpins
  /\ Len(frames) <= MaxFrames
  /\ Len(calls) <= Len(frames)

\* ------------------------------------------------------- classification alone
\* The texts the classification is applied to: every payload as the data
\* object of an envelope, as the data string of an envelope and bare.
MarkerWords == {MarkerChain[i].marker : i \in 1..Len(MarkerChain)}
WordSeqs(n) == UNION {[1..k -> MarkerWords] : k \in 0..n}
Payloads ==
  {WordObj(ms) : ms \in WordSeqs(MaxMarkers)}
    \cup {SixKeyObj(ms) : ms \in WordSeqs(1)}
    \cup {ArrText(<<WordObj(ms)>>) : ms \in WordSeqs(1)}
    \cup {<<"1">>, <<"{">>, Lit(<<"p">>)}
StreamTexts ==
  {StreamLit(w) : w \in {MARK_PRICE, "bookTicker", AGGREGATED_TRADE, KLINE}} \cup {<<"1">>}
ClassifyInputs ==
  {Envelope(st, d) : st \in StreamTexts, d \in Payloads \cup {Quoted(p) : p \in Payloads}}
    \cup Payloads

\* the event loop holds a text frame it has just read
InitClassify ==
  /\ socket = "Some"
  /\ closeSent = FALSE
  /\ running = TRUE
  /\ pc = "dispatch"
  /\ spins = 0
  /\ message \in {TextMsg(t) : t \in ClassifyInputs}
  /\ frames = <<message>>
  /\ calls = <<>>
  /\ result = NoResult
  /\ apiResult = ApiRes("connect", Ok)

NextClassify == DispatchText

SpecClassify == InitClassify /\ [][NextClassify]_vars

\* ------------------------------------------------------- properties
\* frame i of this run is a text frame from which an event is made
Yielding(i) == frames[i].kind = "Text" /\ Classify(frames[i].text).res = "event"
\* frame i of this run has been dispatched to the end
Dispatched(i) == i < Len(frames) \/ pc # "dispatch"
\* the invocations made for frame i
CallsFor(i) == {c \in 1..Len(calls) : calls[c].frame = i}

\* C1: the handler is invoked once for every frame that yields an event, in
\* the order the frames arrived: the j-th invocation is for the j-th such
\* frame and carries the event of that frame.
C1_OrderPreserved ==
  LET done == {i \in 1..Len(frames) : Yielding(i) /\ Dispatched(i)}
  IN /\ Len(calls) = Cardinality(done)
     /\ \A j \in 1..Len(calls) :
          /\ calls[j].frame \in done
          /\ Cardinality({i \in done : i <= calls[j].frame}) = j
          /\ calls[j].variant = Classify(frames[calls[j].frame].text).variant
          /\ calls[j].payload = Classify(frames[calls[j].frame].text).payload

C1_Witness ==
  /\ pc = "poll"
  /\ Len(frames) = 2
  /\ Len(calls) = 2
  /\ calls[1].variant = "Trade"
  /\ calls[2].variant = "FuturesFunding"

\* C2: a Close frame is the last frame of its run: once it is dispatched the
\* run has returned the peer-closed error with the reason of the frame, after
\* one successful invocation for each of the k yielding frames before it, and
\* nothing is read after it, whatever the flag holds.
C2_PeerCloseTerminal ==
  \A i \in 1..Len(frames) :
    frames[i].kind = "Close" =>
      /\ i = Len(frames)
      /\ pc \in {"dispatch", "returned"}
      /\ pc = "returned" =>
           /\ result = [kind |-> "PeerClosed", detail |-> frames[i].reason]
           /\ Len(calls) = Cardinality({j \in 1..(i - 1) : Yielding(j)})
           /\ \A c \in 1..Len(calls) : calls[c].ok

C2_Witness ==
  /\ pc = "returned"
  /\ running
  /\ Len(frames) = 2
  /\ frames[2].kind = "Close"
  /\ frames[2].reason = "Normal"
  /\ Len(calls) = 1
  /\ result.kind = "PeerClosed"

\* C3: when the flag reads false at the poll between two reads, the loop
\* leaves with Ok: nothing more is read, the handler is not invoked again and
\* no invocation is pending.
C3_CooperativeCancel ==
  [][(pc = "poll" /\ ~running /\ pc' # "poll") =>
       /\ pc' = "returned"
       /\ result' = [kind |-> "Ok", detail |-> ""]
       /\ frames' = frames
       /\ calls' = calls
       /\ Len(calls) = Cardinality({i \in 1..Len(frames) : Yielding(i)})]_vars

C3_Witness ==
  /\ pc = "returned"
  /\ ~running
  /\ result.kind = "Ok"
  /\ Len(frames) = 1
  /\ Len(calls) = 1

\* no word any rule looks for occurs in the text t, which is valid JSON
NoRuleApplies(t) ==
  /\ FromStr(t).ok
  /\ ~Has(t, "markPrice")
  /\ ~\A key \in {"u", "s", "b", "B", "a", "A"} : Has(t, key)
  /\ \A w \in {"outboundAccountInfo", "executionReport", "aggTrade", "24hrTicker",
               "kline", "lastUpdateId", "depthUpdate", "ACCOUNT_UPDATE",
               "ORDER_TRADE_UPDATE"} : ~Has(t, w)

\* C4: the dispatch of one frame invokes the handler at most once, only for
\* that frame and only if it is a text frame; a valid JSON text frame that no
\* rule applies to invokes nothing, returns nothing and the loop polls again.
C4_AtMostOneEvent ==
  [][(pc = "dispatch" /\ pc' # "dispatch") =>
       /\ Len(calls') <= Len(calls) + 1
       /\ \A c \in 1..Len(calls') :
            c > Len(calls) => calls'[c].frame = Len(frames) /\ message.kind = "Text"
       /\ \A c \in 1..Len(calls) : calls'[c] = calls[c]
       /\ \A i \in 1..Len(frames) :
            Cardinality({c \in 1..Len(calls') : calls'[c].frame = i}) <= 1
       /\ (message.kind = "Text" /\ NoRuleApplies(message.text)) =>
            (calls' = calls /\ pc' = "poll" /\ result' = result)]_vars

C4_Witness ==
  /\ pc = "poll"
  /\ Len(frames) = 1
  /\ frames[1].kind = "Text"
  /\ NoRuleApplies(frames[1].text)
  /\ calls = <<>>
  /\ result.kind = "none"

\* the envelope of the specification: an object with a string stream and an
\* object data; its payload object and its stream hint
IsEnvelope(val) ==
  val.t = "obj" /\ Index(val, "stream").t = "str" /\ Index(val, "data").t = "obj"
PayloadObject(val) == IF IsEnvelope(val) THEN Index(val, "data") ELSE val
StreamHint(val) == IF IsEnvelope(val) THEN Index(val, "stream").s ELSE <<>>
SixKeys(val) ==
  val.t = "obj" /\ \A key \in {"u", "s", "b", "B", "a", "A"} :
                     \E i \in 1..Len(val.k) : val.k[i] = <<key>>

\* C5: a text frame that is an envelope with a string stream containing
\* "markPrice" and an object data is classified as FuturesFunding.
C5_MarkPricePrecedence ==
  (pc = "dispatch" /\ message.kind = "Text" /\ FromStr(message.text).ok
     /\ IsEnvelope(FromStr(message.text).val)
     /\ Has(StreamHint(FromStr(message.text).val), "markPrice"))
    => Classify(message.text).variant = "FuturesFunding"

\* C6: a text frame whose payload object has the six keys u, s, b, B, a, A
\* and whose stream hint does not contain "markPrice" is classified as
\* BookTicker, whatever markers its text contains.
C6_SixKeysBeforeMarkers ==
  (pc = "dispatch" /\ message.kind = "Text" /\ FromStr(message.text).ok
     /\ SixKeys(PayloadObject(FromStr(message.text).val))
     /\ ~Has(StreamHint(FromStr(message.text).val), "markPrice"))
    => Classify(message.text).variant = "BookTicker"

\* C7: the dispatch of a text frame whose data slot holds a string or a
\* number invokes nothing, returns nothing and the loop polls again.
C7_NonObjectDropped ==
  [][(pc = "dispatch" /\ pc' # "dispatch" /\ message.kind = "Text"
        /\ FromStr(message.text).ok
        /\ Index(FromStr(message.text).val, "data").t \in {"str", "num"}) =>
       (calls' = calls /\ result' = result /\ pc' = "poll")]_vars

\* C8: once the envelope with stream "btcusdt@aggTrade" and the data object
\* {"e":"aggTrade","s":"BTCUSDT","p":"50000.00"} is dispatched, the handler
\* has been invoked exactly once for it, with a Trade event of that object.
C8_EnvelopedObjectClassified ==
  \A i \in 1..Len(frames) :
    (Dispatched(i) /\ frames[i] = TextMsg(Envelope(StreamLit("aggTrade"), TradeObj))) =>
      /\ Cardinality(CallsFor(i)) = 1
      /\ \A c \in CallsFor(i) :
           calls[c].variant = "Trade" /\ calls[c].payload = FromStr(TradeObj).val

\* C9: once a bare frame that is an array of 24hrTicker objects is
\* dispatched, the handler has been invoked exactly once for it, with a
\* DayTicker event of the whole array.
C9_BareFrameClassified ==
  \A i \in 1..Len(frames) :
    (Dispatched(i) /\ frames[i] = TextMsg(DayTickerArr)) =>
      /\ Cardinality(CallsFor(i)) = 1
      /\ \A c \in CallsFor(i) :
           calls[c].variant = "DayTicker" /\ calls[c].payload = FromStr(DayTickerArr).val

\* the markers and their variants in the order the specification fixes
MarkerOrder ==
  << "outboundAccountInfo", "executionReport", "aggTrade", "24hrTicker", "kline",
     "lastUpdateId", "depthUpdate", "ACCOUNT_UPDATE", "ORDER_TRADE_UPDATE" >>
VariantOrder ==
  << "AccountUpdate", "OrderTrade", "Trade", "DayTicker", "Kline",
     "OrderBook", "DepthOrderBook", "FuturesAccountUpdateEvent", "OrderTradeUpdateEvent" >>

\* C10: a text frame classified as the variant of a marker contains that
\* marker and none of the markers before it in the fixed order, and so does
\* the frame of every invocation made with such a variant.
C10_FirstMarkerWins ==
  \A n \in 1..Len(MarkerOrder) :
    /\ (message.kind = "Text" /\ Classify(message.text).variant = VariantOrder[n]) =>
         /\ Has(message.text, MarkerOrder[n])
         /\ \A m \in 1..(n - 1) : ~Has(message.text, MarkerOrder[m])
    /\ \A c \in 1..Len(calls) :
         calls[c].variant = VariantOrder[n] =>
           /\ Has(frames[calls[c].frame].text, MarkerOrder[n])
           /\ \A m \in 1..(n - 1) : ~Has(frames[calls[c].frame].text, MarkerOrder[m])

C10_Witness ==
  /\ pc = "poll"
  /\ Len(calls) = 1
  /\ calls[1].variant = "Trade"
  /\ Has(frames[1].text, "aggTrade")
  /\ Has(frames[1].text, "kline")
  /\ Has(frames[1].text, "bookTicker")

\* a step of disconnect() that returns or changes something
DisconnectStep ==
  /\ apiResult'.op = "disconnect"
  /\ <<apiResult, closeSent, socket>>' # <<apiResult, closeSent, socket>>
\* a step of connect() that returns or changes something
ConnectStep ==
  /\ apiResult'.op = "connect"
  /\ <<apiResult, closeSent, socket>>' # <<apiResult, closeSent, socket>>
\* every yielding frame read so far has had its invocation
AllDelivered == Len(calls) = Cardinality({i \in 1..Len(frames) : Yielding(i)})

\* C11: a disconnect() that succeeds, and an event_loop that returns the
\* error of a failed read or of a Close frame, leave no socket held.
C11_BackToDisconnected ==
  [][/\ (DisconnectStep /\ apiResult'.kind = "Ok") => socket' = "None"
     /\ (pc # "returned" /\ pc' = "returned"
           /\ result'.kind \in {"Transport", "PeerClosed"}) => socket' = "None"]_vars

\* C12: a connect() that fails returns an error and leaves the stored socket
\* as it was; the socket goes from not held to held only in a connect() that
\* returns Ok.
C12_FailedConnectKeepsSocket ==
  [][/\ (ConnectStep /\ apiResult'.kind # "Ok") =>
          /\ apiResult'.kind \in {"UrlParse", "Handshake"}
          /\ socket' = socket
          /\ closeSent' = closeSent
     /\ (socket = "None" /\ socket' = "Some") =>
          apiResult' = [op |-> "connect", kind |-> "Ok", detail |-> ""]]_vars

C12_Witness ==
  /\ socket = "None"
  /\ apiResult.op = "connect"
  /\ apiResult.kind = "Handshake"

\* C13: disconnect() with no socket held returns the not-connected error and
\* changes nothing else; with a socket held it closes that socket: it returns
\* Ok with the close frame sent, or the error of the failed send.
C13_DisconnectNeedsSocket ==
  [][DisconnectStep =>
       IF socket = "None"
         THEN /\ apiResult'.kind = "NotConnected"
              /\ UNCHANGED <<socket, closeSent, running, pc, spins, message,
                             frames, calls, result>>
         ELSE /\ apiResult'.kind \in {"Ok", "Transport"}
              /\ apiResult'.kind = "Ok" => closeSent'
              /\ closeSent => closeSent'
              /\ UNCHANGED <<socket, running, pc, spins, message, frames, calls, result>>]_vars

C13_Witness ==
  /\ socket = "None"
  /\ ~closeSent
  /\ apiResult.op = "disconnect"
  /\ apiResult.kind = "NotConnected"

\* C14: an invocation of the handler that fails is the last thing its run
\* does: it is made for the last frame read, no invocation follows it and the
\* run has returned the failure.
C14_CallbackFailureTerminal ==
  \A c \in 1..Len(calls) :
    ~calls[c].ok =>
      /\ c = Len(calls)
      /\ calls[c].frame = Len(frames)
      /\ Cardinality(CallsFor(calls[c].frame)) = 1
      /\ pc = "returned"
      /\ result = [kind |-> "Callback", detail |-> ""]

C14_Witness ==
  /\ pc = "returned"
  /\ result.kind = "Callback"
  /\ Len(frames) = 2
  /\ Len(calls) = 2
  /\ calls[1].ok
  /\ ~calls[2].ok

\* frame i of this run is a text frame that is not JSON or whose classified
\* payload does not decode
Undecodable(i) == frames[i].kind = "Text" /\ Classify(frames[i].text).res = "err"
\* an undecodable frame that has been dispatched is the last frame read, has
\* no invocation, and the run has returned the decode error
DecodeErrorsFatal ==
  \A i \in 1..Len(frames) :
    (Undecodable(i) /\ Dispatched(i)) =>
      /\ i = Len(frames)
      /\ CallsFor(i) = {}
      /\ pc = "returned"
      /\ result = [kind |-> "Decode", detail |-> ""]

\* C15: a text frame that is not JSON or does not decode ends the run with the
\* decode error, and a read that fails ends it with the transport error: no
\* invocation is made for the frame and nothing is read after it.
C15_ErrorsFatal ==
  /\ []DecodeErrorsFatal
  /\ [][ (pc = "read" /\ pc' # "read" /\ frames' = frames) =>
            (/\ pc' = "returned"
             /\ result' = [kind |-> "Transport", detail |-> ""]
             /\ calls' = calls) ]_vars

C15_Witness ==
  /\ pc = "returned"
  /\ result.kind = "Decode"
  /\ Len(frames) = 2
  /\ Len(calls) = 1
  /\ frames[2] = TextMsg(Envelope(StreamLit("aggTrade"), Lit(<<"p">>)))

\* between the dispatch of one frame and the read of the next no invocation
\* is outstanding, and during a dispatch only that of the frame read last
NoneOutstanding ==
  /\ pc \in {"poll", "read"} => AllDelivered
  /\ pc = "dispatch" =>
       Len(calls) = Cardinality({i \in 1..(Len(frames) - 1) : Yielding(i)})

\* C16: a frame is read only from inside read_message, which is entered only
\* by a poll that read the flag true; when it is entered every frame read
\* before is dispatched and its invocation has returned, and the frame read
\* is dispatched before the flag is polled again.
C16_NoReadAhead ==
  /\ []NoneOutstanding
  /\ [][ /\ (frames' # frames) =>
              (frames' = <<>> \/ (pc = "read" /\ frames' = Append(frames, message')
                                                /\ pc' = "dispatch"))
         /\ (pc' = "read" /\ pc # "read") => (pc = "poll" /\ running)
         /\ (pc' = "poll" /\ pc \notin {"poll", "idle", "returned"}) => (pc = "dispatch")
     ]_vars

C16_Witness ==
  /\ pc = "read"
  /\ Len(frames) = 1
  /\ Len(calls) = 1
  /\ calls[1].ok

\* C17: while the loop is inside read_message with the flag false it leaves
\* only by the return of the read, and the frame read is dispatched as with
\* the flag true: a yielding text frame has its invocation and a Close frame
\* ends the run with the peer-closed error.
C17_NoCancelMidRead ==
  [][/\ (pc = "read" /\ ~running /\ pc' # "read") =>
          \/ pc' = "dispatch" /\ Len(frames') = Len(frames) + 1
          \/ pc' = "returned" /\ result'.kind = "Transport"
     /\ (pc = "dispatch" /\ ~running /\ pc' # "dispatch") =>
          /\ Yielding(Len(frames)) =>
               /\ Len(calls') = Len(calls) + 1
               /\ calls'[Len(calls')].frame = Len(frames)
               /\ calls'[Len(calls')].variant = Classify(message.text).variant
          /\ message.kind = "Close" =>
               (pc' = "returned" /\ result'.kind = "PeerClosed")]_vars

C17_Witness ==
  /\ pc = "read"
  /\ ~running
  /\ Len(frames) = 1
  /\ Len(calls) = 1

\* C18: the dispatch of a Ping, Pong or Binary frame changes nothing and the
\* loop polls the flag next.
C18_ControlIgnored ==
  [][(pc = "dispatch" /\ message.kind \in {"Ping", "Pong", "Binary"}
        /\ pc' # "dispatch") =>
       /\ pc' = "poll"
       /\ UNCHANGED <<socket, closeSent, running, spins, message, frames,
                      calls, result, apiResult>>]_vars

C18_Witness ==
  /\ pc = "poll"
  /\ Len(frames) = 2
  /\ frames[1].kind = "Ping"
  /\ frames[2].kind = "Binary"
  /\ calls = <<>>
  /\ result.kind = "none"

\* C19: while no socket is held a run of event_loop reads nothing and invokes
\* nothing; it stays at the poll while the flag is true, counting another
\* iteration, and leaves only with Ok, when the flag reads false.
C19_NoSocketSpins ==
  [][/\ socket' = "None" =>
          /\ frames' = <<>>
          /\ calls' = <<>>
          /\ pc' \in {"idle", "poll", "returned"}
          /\ pc' = "returned" => result' = [kind |-> "Ok", detail |-> ""]
     /\ (socket = "None" /\ pc = "poll" /\ pc' # "poll") =>
          (~running /\ pc' = "returned")
     /\ (socket = "None" /\ pc = "poll" /\ spins' # spins) =>
          (running /\ spins' = spins + 1 /\ pc' = "poll")]_vars

C19_Witness ==
  /\ socket = "None"
  /\ pc = "poll"
  /\ running
  /\ spins >= 2

\* the number of places of the text t where the word w stands
Count(t, w) == Cardinality({i \in 1..Len(t) : t[i] = w})

\* the marker of place n of the fixed order stands in the stream name of the
\* parsed frame val with text t and nowhere else in t, no marker before it in
\* the order stands in t, and neither of the two rules that come first applies
OnlyInStreamName(t, val, n) ==
  /\ Index(val, "stream").t = "str"
  /\ Index(val, "data").t \in {"obj", "str"}
  /\ Has(Index(val, "stream").s, MarkerOrder[n])
  /\ Count(t, MarkerOrder[n]) = 1
  /\ \A m \in 1..(n - 1) : ~Has(t, MarkerOrder[m])
  /\ ~Has(Index(val, "stream").s, "markPrice")
  /\ ~SixKeys(Index(val, "data"))

\* C20: a text frame whose stream name holds a marker that stands nowhere
\* else in the text is classified as the variant of that marker, also when
\* the data holds a marker that is later in the fixed order.
C20_StreamNameCounts ==
  (pc # "dispatch" /\ Len(frames) > 0 /\ message = frames[Len(frames)]
     /\ message.kind = "Text" /\ FromStr(message.text).ok) =>
    \A n \in 1..Len(MarkerOrder) :
      OnlyInStreamName(message.text, FromStr(message.text).val, n) =>
        \/ \E c \in CallsFor(Len(frames)) : calls[c].variant = VariantOrder[n]
        \/ pc = "returned" /\ result.kind = "Decode"

====
